---- MODULE Spec2Model ----
(***************************************************************************)
(* The forward splat-rendering pipeline of brush-render (render.rs).       *)
(*                                                                         *)
(* The host (render_forward) validates its arguments, allocates buffers    *)
(* and enqueues eight dispatches; the device executes them in queue order, *)
(* the invocations of one dispatch in any order.  Arrays are functions on  *)
(* 0..n-1, as the code indexes them.                                       *)
(***************************************************************************)
EXTENDS Integers, Sequences, FiniteSets, TLC

(* ------------------------------ bounds -------------------------------- *)

\* Number of splats of a call (the leading count D of `means`).
MaxSplats == 2

\* Dispatches the host may be ahead of the device.
MaxQueue == 2

\* The SH functions are tried on 0..MaxCoeffs.
MaxCoeffs == 30

\* Calls of the SH functions chained on one input.
MaxCalls == 2

(* ------------------------- program constants -------------------------- *)

\* shaders::helpers::TILE_WIDTH
TILE_WIDTH == 16

\* crate::INTERSECTS_UPPER_BOUND, scaled down so that the clamp of
\* max_intersections is reached by MaxSplats splats on a two-tile grid.
INTERSECTS_UPPER_BOUND == 3

\* shaders::helpers::MAIN_WG, the workgroup size of ProjectVisible (scaled).
MAIN_WG == 2

\* ProjectSplats::WORKGROUP_SIZE and MapGaussiansToIntersect::WORKGROUP_SIZE
\* (scaled).
WORKGROUP_SIZE == 2

\* u32::MAX, the value at which saturating_mul saturates, scaled to the
\* 31 bits of the model's integers.
U32_MAX == 2147483647

\* The sign bit of an f32 seen as an unsigned integer, scaled likewise.
SIGN_BIT == 1073741824

\* The rasterizer's transmittance, in quarters: a pixel starts at T_INIT and
\* stops compositing once it is below T_THRESHOLD.
T_INIT == 4

T_THRESHOLD == 1

\* The opacity at which alpha reaches its cap.
OPAQUE == 2

(* ------------------------------ helpers ------------------------------- *)

Arr(n, v) == [i \in 0..(n - 1) |-> v]

Len0(a) == Cardinality(DOMAIN a)

Min(a, b) == IF a < b THEN a ELSE b

div_ceil(a, b) == (a + b - 1) \div b

RECURSIVE SumTo(_, _)
\* a[0] + ... + a[i]
SumTo(a, i) == IF i < 0 THEN 0 ELSE a[i] + SumTo(a, i - 1)

RECURSIVE Pow2(_)
Pow2(b) == IF b <= 0 THEN 1 ELSE 2 * Pow2(b - 1)

RECURSIVE BitLen(_)
\* number of bits of n: u32::BITS - n.leading_zeros()
BitLen(n) == IF n = 0 THEN 0 ELSE 1 + BitLen(n \div 2)

(* --------------------------- pure functions --------------------------- *)

Panic == -1

sh_coeffs_for_degree(degree) == (degree + 1) * (degree + 1)

\* Mutant: an unknown coefficient count falls back to degree 0.
sh_degree_from_coeffs_Fallback(coeffs_per_channel) ==
    CASE coeffs_per_channel = 1 -> 0
      [] coeffs_per_channel = 4 -> 1
      [] coeffs_per_channel = 9 -> 2
      [] coeffs_per_channel = 16 -> 3
      [] coeffs_per_channel = 25 -> 4
      [] OTHER -> 0

sh_degree_from_coeffs(coeffs_per_channel) ==
    CASE coeffs_per_channel = 1 -> 0
      [] coeffs_per_channel = 4 -> 1
      [] coeffs_per_channel = 9 -> 2
      [] coeffs_per_channel = 16 -> 3
      [] coeffs_per_channel = 25 -> 4
      [] OTHER -> Panic

calc_tile_bounds(size) ==
    <<div_ceil(size[1], TILE_WIDTH), div_ceil(size[2], TILE_WIDTH)>>

\* u32::saturating_mul: the product, or u32::MAX when it does not fit.
saturating_mul(a, b) ==
    IF b # 0 /\ a > U32_MAX \div b THEN U32_MAX ELSE a * b

\* Mutant: the estimate is not clamped to INTERSECTS_UPPER_BOUND.
max_intersections_NoClamp(size, num_splats) ==
    saturating_mul(num_splats,
                   calc_tile_bounds(size)[1] * calc_tile_bounds(size)[2])

max_intersections(size, num_splats) ==
    LET tile_bounds == calc_tile_bounds(size)
        num_tiles == tile_bounds[1] * tile_bounds[2]
        max == saturating_mul(num_splats, num_tiles)
    IN  Min(max, INTERSECTS_UPPER_BOUND)

\* Threads of a dispatch whose workgroup count is computed on the device
\* from a counter: the count rounded up to whole workgroups.
create_dispatch_buffer(count, wg) == div_ceil(count, wg) * wg

\* An f32 reinterpreted as u32: order-preserving on non-negative values,
\* while a set sign bit puts every negative value above every positive one.
f32_bits(d) == IF d >= 0 THEN d ELSE SIGN_BIT - d

(* ------------------------------ inputs -------------------------------- *)

\* A splat as the projection sees it: view-space depth, activated opacity
\* (in units of 1 / OPAQUE), footprint radius and the tiles the footprint
\* touches (tile ids of an unbounded grid row; the kernels clip them to the
\* tile grid).
Splat(d, o, r, ts) == [depth |-> d, opac |-> o, radius |-> r, tiles |-> ts]

SplatKinds ==
    { Splat(1, OPAQUE, 1, {0}),
      Splat(1, 1, 1, {0, 1}),
      Splat(2, OPAQUE, 1, {1, 2}),
      Splat(1, 0, 1, {0, 1}),     \* zero opacity
      Splat(1, 1, 0, {}),         \* degenerate footprint
      Splat(-1, 1, 1, {0, 1}) }   \* behind the camera

\* Widths of one, two and three tiles, and the empty image.
ImgSizes == {0, TILE_WIDTH, TILE_WIDTH + 1, 2 * TILE_WIDTH + 1} \X {0, TILE_WIDTH}

Shape(m, l, q, s, o) ==
    [means |-> m, log_scales |-> l, quats |-> q, sh_coeffs |-> s,
     raw_opacities |-> o]

GoodShape(c) ==
    Shape(<<MaxSplats, 3>>, <<MaxSplats, 3>>, <<MaxSplats, 4>>,
          <<MaxSplats, c, 3>>, <<MaxSplats>>)

Shapes ==
    { GoodShape(4), GoodShape(5),
      [GoodShape(4) EXCEPT !.means = <<MaxSplats, 2>>],
      [GoodShape(4) EXCEPT !.log_scales = <<MaxSplats - 1, 3>>],
      [GoodShape(4) EXCEPT !.quats = <<MaxSplats, 3>>],
      [GoodShape(4) EXCEPT !.sh_coeffs = <<MaxSplats, 4, 4>>],
      [GoodShape(4) EXCEPT !.raw_opacities = <<MaxSplats + 1>>] }

(* ------------------------------- state -------------------------------- *)

VARIABLES
    img_size, shapes, splats,     \* the arguments of the call
    host_pc, issued,              \* render_forward: position, dispatches enqueued
    dev_stage,                    \* device: number of dispatches retired
    uniforms,                     \* RenderUniforms (device resident)
    ps_done,                      \* ProjectSplats invocations that have finished
    global_from_presort_gid, depths,
    global_from_compact_gid,
    pv_cursor, pv_done,           \* ProjectVisible: tiles emitted per invocation, finished
    projected_splats, tiles_hit_per_splat, isect_info,
    cum_tiles_hit,
    map_done, map_cursor,         \* MapGaussiansToIntersect: finished, per-splat cursor
    tile_counts, tile_id_from_isect, tiled_gid,
    compact_gid_from_isect,       \* the tile-sorted compact ids
    tile_offsets,
    out_tiles,                    \* per tile, the projected splats composited in order
    final_index,                  \* per tile, the final contributing index of its pixel
    out_img_shape, final_index_shape,
    raster_u32,                   \* the packed-output argument of the call
    call, prev,                   \* which call this is; arguments and result of the one before
    pure                          \* a pure function under test: its input and the calls made

inputs == <<img_size, shapes, splats, raster_u32, call, prev, pure>>

output == <<out_tiles, final_index, out_img_shape, final_index_shape>>

host == <<host_pc, issued>>

stage1 == <<ps_done, global_from_presort_gid, depths>>

stage3 == <<pv_cursor, pv_done, projected_splats, tiles_hit_per_splat, isect_info>>

stage5 == <<map_done, map_cursor, tile_counts, tile_id_from_isect, tiled_gid>>

vars == <<inputs, host, dev_stage, uniforms, stage1, global_from_compact_gid,
          stage3, cum_tiles_hit, stage5, compact_gid_from_isect, tile_offsets,
          output>>

\* Marks a slot of a create_tensor buffer that nothing has written yet: its
\* contents are undefined.  Every value the pipeline writes is >= 0.
Uninit == -1

UninitPair == <<Uninit, Uninit>>

UninitSplat == [depth |-> Uninit, opac |-> Uninit, radius |-> Uninit, tiles |-> {}]

NoBuf == Arr(0, 0)

\* Mutant: the depth sort is enqueued before the projection.
Chain_DepthSortFirst ==
    <<"DepthSort", "ProjectSplats", "ProjectVisible", "PrefixSum",
      "MapGaussiansToIntersect", "TileSort", "PrefixSumTileCounts", "Rasterize">>

\* The dispatches of render_forward in the order of its code.
Chain ==
    <<"ProjectSplats", "DepthSort", "ProjectVisible", "PrefixSum",
      "MapGaussiansToIntersect", "TileSort", "PrefixSumTileCounts", "Rasterize">>

\* The device buffers and counters each dispatch is handed to read: its
\* bindings, sort and prefix-sum arguments and its dispatch-size counter,
\* less the buffers created for it to fill.
Reads ==
    [ProjectSplats |-> {"uniforms"},
     DepthSort |-> {"depths", "global_from_presort_gid", "num_visible"},
     ProjectVisible |-> {"uniforms", "num_visible", "global_from_compact_gid"},
     PrefixSum |-> {"tiles_hit_per_splat"},
     MapGaussiansToIntersect |-> {"num_intersections", "isect_info", "cum_tiles_hit"},
     TileSort |-> {"tile_id_from_isect", "tiled_gid", "num_intersections"},
     PrefixSumTileCounts |-> {"tile_counts"},
     Rasterize |-> {"uniforms", "compact_gid_from_isect", "tile_offsets",
                    "projected_splats"}]

\* Mutant: the Intersection Mapper counts the intersections again.
Writes_MapperCounts ==
    [ProjectSplats |-> {"global_from_presort_gid", "depths", "num_visible"},
     DepthSort |-> {"global_from_compact_gid"},
     ProjectVisible |-> {"projected_splats", "tiles_hit_per_splat", "isect_info",
                         "num_intersections"},
     PrefixSum |-> {"cum_tiles_hit"},
     MapGaussiansToIntersect |-> {"tile_counts", "tile_id_from_isect", "tiled_gid",
                                  "num_intersections"},
     TileSort |-> {"compact_gid_from_isect"},
     PrefixSumTileCounts |-> {"tile_offsets"},
     Rasterize |-> {"out_img", "final_index"}]

\* The buffers and counters each dispatch fills: the buffers created for
\* it, the results of the sorts and prefix sums, and the counter of the
\* uniform record the two projection kernels count up.
Writes ==
    [ProjectSplats |-> {"global_from_presort_gid", "depths", "num_visible"},
     DepthSort |-> {"global_from_compact_gid"},
     ProjectVisible |-> {"projected_splats", "tiles_hit_per_splat", "isect_info",
                         "num_intersections"},
     PrefixSum |-> {"cum_tiles_hit"},
     MapGaussiansToIntersect |-> {"tile_counts", "tile_id_from_isect", "tiled_gid"},
     TileSort |-> {"compact_gid_from_isect"},
     PrefixSumTileCounts |-> {"tile_offsets"},
     Rasterize |-> {"out_img", "final_index"}]

NoCall == [splats |-> <<>>, out_tiles |-> <<>>]

\* Nothing is enqueued and no buffer is allocated.
NothingIssued ==
    /\ issued = <<>>
    /\ dev_stage = 0
    /\ uniforms = [num_visible |-> 0, num_intersections |-> 0, sh_degree |-> 0,
                   total_splats |-> 0, tile_bounds |-> <<0, 0>>]
    /\ ps_done = {}
    /\ global_from_presort_gid = NoBuf
    /\ depths = NoBuf
    /\ global_from_compact_gid = NoBuf
    /\ pv_cursor = NoBuf
    /\ pv_done = {}
    /\ projected_splats = NoBuf
    /\ tiles_hit_per_splat = NoBuf
    /\ isect_info = NoBuf
    /\ cum_tiles_hit = NoBuf
    /\ map_done = {}
    /\ map_cursor = NoBuf
    /\ tile_counts = NoBuf
    /\ tile_id_from_isect = NoBuf
    /\ tiled_gid = NoBuf
    /\ compact_gid_from_isect = NoBuf
    /\ tile_offsets = NoBuf
    /\ out_tiles = NoBuf
    /\ final_index = NoBuf
    /\ out_img_shape = <<>>
    /\ final_index_shape = <<>>

\* No pure function is under test.
NoPure == [x |-> <<>>, calls |-> <<>>]

Init ==
    /\ img_size \in ImgSizes
    /\ shapes \in Shapes
    /\ splats \in [0..(MaxSplats - 1) -> SplatKinds]
    /\ raster_u32 \in BOOLEAN
    /\ call = 1
    /\ prev = NoCall
    /\ pure = NoPure
    /\ host_pc = "entry"
    /\ NothingIssued

(* ------------------------- host: render_forward ----------------------- *)

\* DimCheck: every named dimension is bound by its first use and must agree
\* afterwards; every numeric dimension must match; the rank must match.
DimsOk ==
    LET D == shapes.means[1] IN
    /\ Len(shapes.means) = 2 /\ shapes.means[2] = 3
    /\ Len(shapes.log_scales) = 2
    /\ shapes.log_scales[1] = D /\ shapes.log_scales[2] = 3
    /\ Len(shapes.quats) = 2
    /\ shapes.quats[1] = D /\ shapes.quats[2] = 4
    /\ Len(shapes.sh_coeffs) = 3
    /\ shapes.sh_coeffs[1] = D /\ shapes.sh_coeffs[3] = 3
    /\ Len(shapes.raw_opacities) = 1
    /\ shapes.raw_opacities[1] = D

SizeOk == img_size[1] > 0 /\ img_size[2] > 0

ShOk == sh_degree_from_coeffs(shapes.sh_coeffs[2]) # Panic

\* Mutant: the SH coefficient count is not checked before the pipeline.
PreconditionsOk_NoShCheck == SizeOk /\ DimsOk

\* The assert of line 90, DimCheck and sh_degree_from_coeffs all pass.
PreconditionsOk == SizeOk /\ DimsOk /\ ShOk

num_points == shapes.means[1]

tile_bounds == calc_tile_bounds(img_size)

num_tiles == tile_bounds[1] * tile_bounds[2]

max_intersects == max_intersections(img_size, num_points)

\* Mutant: the intersection counter of the record does not start at zero.
NewUniforms_StaleIntersections ==
    [num_visible |-> 0, num_intersections |-> 1,
     sh_degree |-> sh_degree_from_coeffs(shapes.sh_coeffs[2]),
     total_splats |-> shapes.means[1],
     tile_bounds |-> calc_tile_bounds(img_size)]

\* Mutant: the visible counter of the record does not start at zero.
NewUniforms_StaleCounter ==
    [num_visible |-> 1, num_intersections |-> 0,
     sh_degree |-> sh_degree_from_coeffs(shapes.sh_coeffs[2]),
     total_splats |-> shapes.means[1],
     tile_bounds |-> calc_tile_bounds(img_size)]

\* create_uniform_buffer (lines 133-148): both counters start at zero.
NewUniforms ==
    [num_visible |-> 0, num_intersections |-> 0,
     sh_degree |-> sh_degree_from_coeffs(shapes.sh_coeffs[2]),
     total_splats |-> num_points, tile_bounds |-> tile_bounds]

\* Lines 90-155: the checks, then the uniform record.
Validate ==
    /\ host_pc = "entry"
    /\ IF PreconditionsOk
       THEN /\ host_pc' = "issuing"
            /\ uniforms' = NewUniforms
       ELSE /\ host_pc' = "panicked"
            /\ UNCHANGED uniforms
    /\ UNCHANGED <<inputs, issued, dev_stage, stage1, global_from_compact_gid,
                   stage3, cum_tiles_hit, stage5, compact_gid_from_isect,
                   tile_offsets, output>>

\* The host enqueues the k-th dispatch of the chain.
Enqueue(k) ==
    /\ host_pc = "issuing"
    /\ Len(issued) = k - 1
    /\ Len(issued) - dev_stage < MaxQueue
    /\ issued' = Append(issued, Chain[k])
    /\ UNCHANGED <<inputs, host_pc, dev_stage, uniforms>>

\* Lines 155-178: radii, global_from_presort_gid (zeros), depths, ProjectSplats.
IssueProjectSplats ==
    /\ Enqueue(1)
    /\ global_from_presort_gid' = Arr(num_points, 0)
    /\ depths' = Arr(num_points, Uninit)
    /\ UNCHANGED <<ps_done, global_from_compact_gid, stage3, cum_tiles_hit,
                   stage5, compact_gid_from_isect, tile_offsets, output>>

\* Lines 180-192: the num_visible slice and the depth sort.
IssueDepthSort ==
    /\ Enqueue(2)
    /\ UNCHANGED <<stage1, global_from_compact_gid, stage3, cum_tiles_hit,
                   stage5, compact_gid_from_isect, tile_offsets, output>>

\* Mutant: the hit counts are allocated without being cleared and hold
\* what the memory held before.
NewTilesHitPerSplat_NotCleared == Arr(num_points + 1, 1)

\* int_zeros([num_points + 1]) (lines 204-205): one extra entry, so that the
\* running sum of the array is the exclusive sum of the counts.
NewTilesHitPerSplat == Arr(num_points + 1, 0)

\* Lines 197-228: projected_splats, the dispatch size, max_intersects,
\* tiles_hit_per_splat (zeros, one extra entry), isect_info, ProjectVisible.
IssueProjectVisible ==
    /\ Enqueue(3)
    /\ projected_splats' = Arr(num_points, UninitSplat)
    /\ tiles_hit_per_splat' = NewTilesHitPerSplat
    /\ isect_info' = Arr(max_intersects, UninitPair)
    /\ pv_cursor' = Arr(num_points, 0)
    /\ UNCHANGED <<stage1, global_from_compact_gid, pv_done, cum_tiles_hit,
                   stage5, compact_gid_from_isect, tile_offsets, output>>

\* Lines 230-259: the num_intersections slice, the dispatch size, the flat
\* intersection arrays, tile_counts (zeros, one extra entry), prefix_sum.
IssuePrefixSumHits ==
    /\ Enqueue(4)
    /\ tile_id_from_isect' = Arr(max_intersects, Uninit)
    /\ tiled_gid' = Arr(max_intersects, Uninit)
    /\ tile_counts' = Arr(num_tiles + 1, 0)
    /\ UNCHANGED <<stage1, global_from_compact_gid, stage3, cum_tiles_hit,
                   map_done, map_cursor, compact_gid_from_isect, tile_offsets,
                   output>>

\* Lines 261-276.
IssueMapGaussiansToIntersect ==
    /\ Enqueue(5)
    /\ map_cursor' = Arr(num_points, 0)
    /\ UNCHANGED <<stage1, global_from_compact_gid, stage3, cum_tiles_hit,
                   map_done, tile_counts, tile_id_from_isect, tiled_gid,
                   compact_gid_from_isect, tile_offsets, output>>

\* Lines 278-290.
IssueTileSort ==
    /\ Enqueue(6)
    /\ UNCHANGED <<stage1, global_from_compact_gid, stage3, cum_tiles_hit,
                   stage5, compact_gid_from_isect, tile_offsets, output>>

\* Lines 292-293.
IssuePrefixSumTileCounts ==
    /\ Enqueue(7)
    /\ UNCHANGED <<stage1, global_from_compact_gid, stage3, cum_tiles_hit,
                   stage5, compact_gid_from_isect, tile_offsets, output>>

\* Channels of the output image (lines 300-305): packed into one float, or
\* four floats.
out_dim == IF raster_u32 THEN 1 ELSE 4

\* Mutant: the image is allocated width first.
OutImgShape_WidthFirst == <<img_size[1], img_size[2], out_dim>>

\* The shape of out_img (lines 307-314): [img_size.y, img_size.x, out_dim].
OutImgShape == <<img_size[2], img_size[1], out_dim>>

\* The shape of final_index (lines 321-326): [img_size.y, img_size.x].
FinalIndexShape == <<img_size[2], img_size[1]>>

\* Lines 298-342: out_img, final_index, Rasterize.
IssueRasterize ==
    /\ Enqueue(8)
    /\ out_img_shape' = OutImgShape
    /\ final_index_shape' = FinalIndexShape
    /\ out_tiles' = Arr(num_tiles, <<>>)
    /\ final_index' = Arr(num_tiles, Uninit)
    /\ UNCHANGED <<stage1, global_from_compact_gid, stage3, cum_tiles_hit,
                   stage5, compact_gid_from_isect, tile_offsets>>

\* Lines 344-357: the image and the auxiliary bundle are returned.
Return ==
    /\ host_pc = "issuing"
    /\ Len(issued) = Len(Chain)
    /\ host_pc' = "returned"
    /\ UNCHANGED <<inputs, issued, dev_stage, uniforms, stage1,
                   global_from_compact_gid, stage3, cum_tiles_hit, stage5,
                   compact_gid_from_isect, tile_offsets, output>>

Host ==
    \/ Validate
    \/ IssueProjectSplats
    \/ IssueDepthSort
    \/ IssueProjectVisible
    \/ IssuePrefixSumHits
    \/ IssueMapGaussiansToIntersect
    \/ IssueTileSort
    \/ IssuePrefixSumTileCounts
    \/ IssueRasterize
    \/ Return

(* ------------------------------- device ------------------------------- *)

\* The device runs the k-th dispatch once it is enqueued and the k-1 before
\* it have retired.
Running(k) == dev_stage = k - 1 /\ Len(issued) >= k

Retire ==
    /\ dev_stage' = dev_stage + 1
    /\ UNCHANGED <<inputs, host>>

(* ProjectSplats: one invocation per splat. *)

\* The visibility predicate: positive depth, non-zero opacity, a footprint
\* that is not degenerate.
Visible(s) == s.depth > 0 /\ s.opac > 0 /\ s.radius > 0

\* Mutant: one invocation per workgroup instead of WORKGROUP_SIZE.
ProjectSplatsThreads_TooFew == div_ceil(num_points, WORKGROUP_SIZE)

\* calc_cube_count([num_points], WORKGROUP_SIZE): whole workgroups.
ProjectSplatsThreads == div_ceil(num_points, WORKGROUP_SIZE) * WORKGROUP_SIZE

\* Invocations past total_splats return at once; the others are live.
ProjectSplatsLive ==
    {g \in 0..(ProjectSplatsThreads - 1) : g < uniforms.total_splats}

\* A visible splat takes the next slot from the atomic counter and writes
\* its index and depth there; a culled one writes nothing.
ProjectSplatsThread(g) ==
    /\ Running(1)
    /\ g \in ProjectSplatsLive \ ps_done
    /\ ps_done' = ps_done \cup {g}
    /\ IF Visible(splats[g])
       THEN LET write_id == uniforms.num_visible IN
            /\ uniforms' = [uniforms EXCEPT !.num_visible = write_id + 1]
            /\ global_from_presort_gid' =
                   [global_from_presort_gid EXCEPT ![write_id] = g]
            /\ depths' = [depths EXCEPT ![write_id] = splats[g].depth]
       ELSE UNCHANGED <<uniforms, global_from_presort_gid, depths>>
    /\ UNCHANGED <<inputs, host, dev_stage, global_from_compact_gid, stage3,
                   cum_tiles_hit, stage5, compact_gid_from_isect, tile_offsets,
                   output>>

ProjectSplatsRetire ==
    /\ Running(1)
    /\ ps_done = ProjectSplatsLive
    /\ Retire
    /\ UNCHANGED <<uniforms, stage1, global_from_compact_gid, stage3,
                   cum_tiles_hit, stage5, compact_gid_from_isect, tile_offsets,
                   output>>

(* radix_argsort: a stable sort of the first n entries by the low bits of  *)
(* the key.  Entries past n of the result are whatever the fresh output    *)
(* buffer held.                                                            *)

\* Keys of the model are below 2^31, so a width of 31 bits or more keeps
\* the whole key.
KeyBits(k, bits) == IF bits >= 31 THEN k ELSE k % Pow2(bits)

SortPos(keys, n, bits, i) ==
    Cardinality({j \in 0..(n - 1) :
        \/ KeyBits(keys[j], bits) < KeyBits(keys[i], bits)
        \/ KeyBits(keys[j], bits) = KeyBits(keys[i], bits) /\ j < i})

radix_argsort(keys, vals, count, bits, rest) ==
    LET n == Min(count, Len0(vals)) IN
    [p \in DOMAIN vals |->
        IF p < n
        THEN vals[CHOOSE i \in 0..(n - 1) : SortPos(keys, n, bits, i) = p]
        ELSE rest[p]]

\* Mutant: the depth sort is keyed on the payload.
DepthSortKeys_Payload == global_from_presort_gid

\* Mutant: the depth sort carries the keys as its payload.
DepthSortPayload_Keys == depths

\* Mutant: the depth sort gets the key width of the tile sort.
DepthSortBits_TileBits == BitLen(num_tiles)

\* The arguments of the depth sort (line 191): keys, payload, count, width.
DepthSortKeys == depths

DepthSortPayload == global_from_presort_gid

DepthSortCount == uniforms.num_visible

DepthSortBits == 32

DepthSort ==
    /\ Running(2)
    /\ \E rest \in [DepthSortCount..(num_points - 1) -> 0..(num_points - 1)] :
           global_from_compact_gid' =
               radix_argsort([i \in DOMAIN DepthSortKeys |-> f32_bits(DepthSortKeys[i])],
                             DepthSortPayload, DepthSortCount, DepthSortBits, rest)
    /\ depths' = NoBuf
    /\ global_from_presort_gid' = NoBuf
    /\ Retire
    /\ UNCHANGED <<uniforms, ps_done, stage3, cum_tiles_hit, stage5,
                   compact_gid_from_isect, tile_offsets, output>>

(* ProjectVisible: one invocation per compact id. *)

\* create_dispatch_buffer(num_visible, [MAIN_WG, 1, 1]) (line 201).
ProjectVisibleThreads == create_dispatch_buffer(uniforms.num_visible, MAIN_WG)

\* Invocations past num_visible return at once.
ProjectVisibleLive ==
    {c \in 0..(ProjectVisibleThreads - 1) : c < uniforms.num_visible}

\* The tiles of the grid the footprint of a splat overlaps.
TilesHit(s) == s.tiles \cap 0..(num_tiles - 1)

\* The i-th smallest element of a set of integers, i from 0.
Nth(S, i) == CHOOSE x \in S : Cardinality({y \in S : y < x}) = i

\* One overlapped tile of compact id c, in ascending tile order: the slot
\* comes from the atomic intersection counter and the write is dropped when
\* the slot is past the capacity.  After its last tile the invocation writes
\* the projected splat and its hit count (offset by one).
ProjectVisibleThread(c) ==
    LET g == global_from_compact_gid[c]
        hit == TilesHit(splats[g])
        k == pv_cursor[c]
        last == k + 1 >= Cardinality(hit)
    IN  /\ Running(3)
        /\ c \in ProjectVisibleLive \ pv_done
        /\ IF k < Cardinality(hit)
           THEN LET isect_id == uniforms.num_intersections IN
                /\ uniforms' = [uniforms EXCEPT !.num_intersections = isect_id + 1]
                /\ isect_info' =
                       IF isect_id < max_intersects
                       THEN [isect_info EXCEPT ![isect_id] = <<Nth(hit, k), c>>]
                       ELSE isect_info
                /\ pv_cursor' = [pv_cursor EXCEPT ![c] = k + 1]
           ELSE UNCHANGED <<uniforms, isect_info, pv_cursor>>
        /\ IF last
           THEN /\ pv_done' = pv_done \cup {c}
                /\ projected_splats' = [projected_splats EXCEPT ![c] = splats[g]]
                /\ tiles_hit_per_splat' =
                       [tiles_hit_per_splat EXCEPT ![c + 1] = Cardinality(hit)]
           ELSE UNCHANGED <<pv_done, projected_splats, tiles_hit_per_splat>>
        /\ UNCHANGED <<inputs, host, dev_stage, stage1, global_from_compact_gid,
                       cum_tiles_hit, stage5, compact_gid_from_isect,
                       tile_offsets, output>>

ProjectVisibleRetire ==
    /\ Running(3)
    /\ pv_done = ProjectVisibleLive
    /\ pv_cursor' = NoBuf
    /\ Retire
    /\ UNCHANGED <<uniforms, stage1, global_from_compact_gid, pv_done,
                   projected_splats, tiles_hit_per_splat, isect_info,
                   cum_tiles_hit, stage5, compact_gid_from_isect, tile_offsets,
                   output>>

(* prefix_sum: entry i of the result is the sum of entries 0..i.  With the *)
(* counts stored one entry up, that is the exclusive sum of the counts.    *)

prefix_sum(a) == [i \in DOMAIN a |-> SumTo(a, i)]

PrefixSumHits ==
    /\ Running(4)
    /\ cum_tiles_hit' = prefix_sum(tiles_hit_per_splat)
    /\ tiles_hit_per_splat' = NoBuf
    /\ Retire
    /\ UNCHANGED <<uniforms, stage1, global_from_compact_gid, pv_cursor, pv_done,
                   projected_splats, isect_info, stage5,
                   compact_gid_from_isect, tile_offsets, output>>

(* MapGaussiansToIntersect: one invocation per candidate. *)

\* Mutant: the dispatch is sized from the visible count.
MapThreads_FromVisible == create_dispatch_buffer(uniforms.num_visible, WORKGROUP_SIZE)

\* create_dispatch_buffer(num_intersections, WORKGROUP_SIZE) (lines 237-240).
MapThreads == create_dispatch_buffer(uniforms.num_intersections, WORKGROUP_SIZE)

\* Invocations past num_intersections, or past the end of the candidate
\* array, return at once.
MapLive ==
    {k \in 0..(MapThreads - 1) :
        k < uniforms.num_intersections /\ k < Len0(isect_info)}

\* Candidate k goes to the next free slot of its splat's block, which
\* starts at the cumulative hit count of the splat; the tile's bucket (offset
\* by one) is counted up.  A slot past the end of the arrays is not written.
MapThread(k) ==
    LET tile_id == isect_info[k][1]
        c == isect_info[k][2]
        write_id == cum_tiles_hit[c] + map_cursor[c]
    IN  /\ Running(5)
        /\ k \in MapLive \ map_done
        /\ map_done' = map_done \cup {k}
        /\ map_cursor' = [map_cursor EXCEPT ![c] = @ + 1]
        /\ IF write_id < Len0(tile_id_from_isect)
           THEN /\ tile_id_from_isect' = [tile_id_from_isect EXCEPT ![write_id] = tile_id]
                /\ tiled_gid' = [tiled_gid EXCEPT ![write_id] = c]
                /\ tile_counts' = [tile_counts EXCEPT ![tile_id + 1] = @ + 1]
           ELSE UNCHANGED <<tile_id_from_isect, tiled_gid, tile_counts>>
        /\ UNCHANGED <<inputs, host, dev_stage, uniforms, stage1,
                       global_from_compact_gid, stage3, cum_tiles_hit,
                       compact_gid_from_isect, tile_offsets, output>>

MapRetire ==
    /\ Running(5)
    /\ map_done = MapLive
    /\ isect_info' = NoBuf
    /\ cum_tiles_hit' = NoBuf
    /\ map_cursor' = NoBuf
    /\ Retire
    /\ UNCHANGED <<uniforms, stage1, global_from_compact_gid, pv_cursor, pv_done,
                   projected_splats, tiles_hit_per_splat, map_done, tile_counts,
                   tile_id_from_isect, tiled_gid, compact_gid_from_isect,
                   tile_offsets, output>>

(* The tile sort. *)

\* Mutant: the width is the floor of the binary logarithm of num_tiles.
TileSortBits_Log2 == BitLen(num_tiles) - 1

\* u32::BITS - num_tiles.leading_zeros() (line 280).
TileSortBits == BitLen(num_tiles)

\* Mutant: the tile sort is keyed on the compact ids.
TileSortKeys_Payload == tiled_gid

\* Mutant: the tile sort carries the tile ids as its payload.
TileSortPayload_Keys == tile_id_from_isect

\* The other arguments of the tile sort (lines 285-287); the sort does not
\* pass the arrays' end.
TileSortKeys == tile_id_from_isect

TileSortPayload == tiled_gid

TileSortCount == Min(uniforms.num_intersections, Len0(tile_id_from_isect))

\* Slots below the sort count that no invocation wrote (the capacity was
\* exceeded) hold stale values: any of vals.
Stale(a, vals) ==
    LET holes == {i \in DOMAIN a : i < TileSortCount /\ a[i] = Uninit} IN
    {[i \in DOMAIN a |-> IF i \in holes THEN fill[i] ELSE a[i]] :
        fill \in [holes -> vals]}

TileSort ==
    /\ Running(6)
    /\ \E keys \in Stale(TileSortKeys, 0..(num_tiles - 1)),
          vals \in Stale(TileSortPayload, 0..(uniforms.num_visible - 1)) :
           compact_gid_from_isect' =
               radix_argsort(keys, vals, TileSortCount, TileSortBits, vals)
    /\ tile_id_from_isect' = NoBuf
    /\ tiled_gid' = NoBuf
    /\ Retire
    /\ UNCHANGED <<uniforms, stage1, global_from_compact_gid, stage3,
                   cum_tiles_hit, map_done, map_cursor, tile_counts,
                   tile_offsets, output>>

PrefixSumTileCounts ==
    /\ Running(7)
    /\ tile_offsets' = prefix_sum(tile_counts)
    /\ tile_counts' = NoBuf
    /\ Retire
    /\ UNCHANGED <<uniforms, stage1, global_from_compact_gid, stage3,
                   cum_tiles_hit, map_done, map_cursor, tile_id_from_isect,
                   tiled_gid, compact_gid_from_isect, output>>

(* Rasterize: a pixel of tile t composites the projected splats of the     *)
(* tile's range in stored order, front to back, until its transmittance    *)
(* is below the threshold or the range is exhausted.  The model keeps one  *)
(* pixel per tile, at which every splat of the range has full weight.      *)

TileRange(t) == tile_offsets[t]..(tile_offsets[t + 1] - 1)

\* transmittance *= (1 - alpha), with alpha = opacity * weight.
NextT(T, s) == (T * (OPAQUE - s.opac)) \div OPAQUE

\* The projected splat an intersection names; a read past the end of the
\* buffer yields no splat.
Fetch(i) ==
    LET c == compact_gid_from_isect[i] IN
    IF c \in DOMAIN projected_splats THEN projected_splats[c] ELSE UninitSplat

RECURSIVE Composited(_, _, _)
\* The number of intersections a pixel of tile t accumulates from index i
\* of the range on, entering with transmittance T.
Composited(t, i, T) ==
    IF i >= tile_offsets[t + 1]
    THEN 0
    ELSE LET T2 == NextT(T, Fetch(i)) IN
         IF T2 < T_THRESHOLD THEN 1 ELSE 1 + Composited(t, i + 1, T2)

\* The pixel's colour is kept as the sequence of splats accumulated; the
\* final index is the compact id of the last of them (0 when there is none).
Rasterize ==
    /\ Running(8)
    /\ out_tiles' =
           [t \in 0..(num_tiles - 1) |->
               [i \in 1..Composited(t, tile_offsets[t], T_INIT) |->
                   Fetch(tile_offsets[t] + i - 1)]]
    /\ final_index' =
           [t \in 0..(num_tiles - 1) |->
               LET n == Composited(t, tile_offsets[t], T_INIT) IN
               IF n = 0 THEN 0
               ELSE compact_gid_from_isect[tile_offsets[t] + n - 1]]
    /\ Retire
    /\ UNCHANGED <<uniforms, stage1, global_from_compact_gid, stage3,
                   cum_tiles_hit, stage5, compact_gid_from_isect, tile_offsets,
                   out_img_shape, final_index_shape>>

Device ==
    \/ \E g \in 0..(MaxSplats + WORKGROUP_SIZE) : ProjectSplatsThread(g)
    \/ ProjectSplatsRetire
    \/ DepthSort
    \/ \E c \in 0..(MaxSplats + MAIN_WG) : ProjectVisibleThread(c)
    \/ ProjectVisibleRetire
    \/ PrefixSumHits
    \/ \E k \in 0..(INTERSECTS_UPPER_BOUND + WORKGROUP_SIZE) : MapThread(k)
    \/ MapRetire
    \/ TileSort
    \/ PrefixSumTileCounts
    \/ Rasterize

Next == Host \/ Device

Spec == Init /\ [][Next]_vars

(* ------------------------- a second call ------------------------------ *)

Finished == host_pc = "returned" /\ dev_stage = Len(Chain)

Perms ==
    {p \in [0..(MaxSplats - 1) -> 0..(MaxSplats - 1)] :
        \A i, j \in 0..(MaxSplats - 1) : i # j => p[i] # p[j]}

\* render_forward is called again on the same splats in another order of
\* the input arrays.  Nothing persists between calls: every buffer is fresh.
CallAgain ==
    /\ call = 1
    /\ Finished
    /\ \E p \in Perms : splats' = [i \in DOMAIN splats |-> splats[p[i]]]
    /\ call' = 2
    /\ prev' = [splats |-> splats, out_tiles |-> out_tiles]
    /\ host_pc' = "entry"
    /\ issued' = <<>>
    /\ dev_stage' = 0
    /\ uniforms' = [num_visible |-> 0, num_intersections |-> 0, sh_degree |-> 0,
                    total_splats |-> 0, tile_bounds |-> <<0, 0>>]
    /\ ps_done' = {}
    /\ pv_done' = {}
    /\ map_done' = {}
    /\ global_from_presort_gid' = NoBuf
    /\ depths' = NoBuf
    /\ global_from_compact_gid' = NoBuf
    /\ pv_cursor' = NoBuf
    /\ projected_splats' = NoBuf
    /\ tiles_hit_per_splat' = NoBuf
    /\ isect_info' = NoBuf
    /\ cum_tiles_hit' = NoBuf
    /\ map_cursor' = NoBuf
    /\ tile_counts' = NoBuf
    /\ tile_id_from_isect' = NoBuf
    /\ tiled_gid' = NoBuf
    /\ compact_gid_from_isect' = NoBuf
    /\ tile_offsets' = NoBuf
    /\ out_tiles' = NoBuf
    /\ final_index' = NoBuf
    /\ out_img_shape' = <<>>
    /\ final_index_shape' = <<>>
    /\ UNCHANGED <<img_size, shapes, raster_u32, pure>>

NextTwoCalls == Next \/ CallAgain

SpecTwoCalls == Init /\ [][NextTwoCalls]_vars

(* ------------------- the pure functions on their own ------------------ *)

\* Inputs of the SH functions: a degree or a coefficient count.
ShInputs == {<<c>> : c \in 0..MaxCoeffs}

\* Inputs of max_intersections: width, height and the number of splats, up
\* to products that do not fit.
MaxIntersectionsInputs ==
    {<<w, h, n>> : w \in {1, TILE_WIDTH, TILE_WIDTH + 1, 2 * TILE_WIDTH + 1},
                   h \in {1, TILE_WIDTH, TILE_WIDTH + 1},
                   n \in {0, 1, 2, 3, 4, SIGN_BIT, U32_MAX - 1, U32_MAX}}

\* render_forward is not called: a function is applied to an input.
InitPure ==
    /\ pure \in [x : ShInputs \cup MaxIntersectionsInputs, calls : {<<>>}]
    /\ img_size = <<0, 0>>
    /\ shapes = GoodShape(1)
    /\ splats = [g \in 0..(MaxSplats - 1) |-> UninitSplat]
    /\ raster_u32 = FALSE
    /\ call = 0
    /\ prev = NoCall
    /\ host_pc = "idle"
    /\ NothingIssued

\* The value the next call is applied to: the input, or the last result.
PureArg ==
    IF pure.calls = <<>> THEN pure.x[1] ELSE pure.calls[Len(pure.calls)].ret

PureCall(f, a, r) ==
    /\ pure' = [pure EXCEPT !.calls = Append(@, [fn |-> f, arg |-> a, ret |-> r])]
    /\ UNCHANGED <<img_size, shapes, splats, raster_u32, call, prev, host,
                   dev_stage, uniforms, stage1, global_from_compact_gid, stage3,
                   cum_tiles_hit, stage5, compact_gid_from_isect, tile_offsets,
                   output>>

CallShCoeffsForDegree ==
    /\ Len(pure.x) = 1
    /\ Len(pure.calls) < MaxCalls
    /\ PureArg \in 0..MaxCoeffs
    /\ PureCall("sh_coeffs_for_degree", PureArg, sh_coeffs_for_degree(PureArg))

\* A call that panicked is the last of its chain.
CallShDegreeFromCoeffs ==
    /\ Len(pure.x) = 1
    /\ Len(pure.calls) < MaxCalls
    /\ PureArg # Panic
    /\ PureCall("sh_degree_from_coeffs", PureArg, sh_degree_from_coeffs(PureArg))

CallMaxIntersections ==
    /\ Len(pure.x) = 3
    /\ pure.calls = <<>>
    /\ PureCall("max_intersections", 0,
                max_intersections(<<pure.x[1], pure.x[2]>>, pure.x[3]))

NextPure ==
    \/ CallShCoeffsForDegree
    \/ CallShDegreeFromCoeffs
    \/ CallMaxIntersections

SpecPure == InitPure /\ [][NextPure]_vars

\* Calls of render_forward and calls of the functions on their own.
InitAny == Init \/ InitPure

NextAny == Next \/ NextPure

SpecAny == InitAny /\ [][NextAny]_vars

(* ------------------------------ claims -------------------------------- *)

\* The stages the device has retired.
Projected == dev_stage >= 1

DepthSorted == dev_stage >= 2

Mapped == dev_stage >= 5

TileSorted == dev_stage >= 6

TileOffsetsReady == dev_stage >= 7

Rasterized == dev_stage >= 8

\* The final intersection count is within the capacity of the scratch arrays.
WithinCapacity == dev_stage >= 3 /\ uniforms.num_intersections <= max_intersects

\* The splat behind compact id c.
SplatOf(c) == splats[global_from_compact_gid[c]]

Tiles == 0..(num_tiles - 1)

\* C1's preconditions, as the claim words them.
C1_PreconditionsFail ==
    \/ img_size[1] = 0
    \/ img_size[2] = 0
    \/ ~ \E D \in 0..(MaxSplats + 1) :
            /\ shapes.means = <<D, 3>>
            /\ shapes.log_scales = <<D, 3>>
            /\ shapes.quats = <<D, 4>>
            /\ Len(shapes.sh_coeffs) = 3
            /\ shapes.sh_coeffs[1] = D /\ shapes.sh_coeffs[3] = 3
            /\ shapes.raw_opacities = <<D>>
    \/ shapes.sh_coeffs[2] \notin {1, 4, 9, 16, 25}

\* C1: a call whose preconditions fail panics with no dispatch enqueued and
\* none run; the dispatches enqueued are always a prefix of the chain, a call
\* that has panicked has enqueued none, and a call that has returned has
\* enqueued the whole chain.
C1_FailFastOrFullChain ==
    /\ C1_PreconditionsFail =>
           host_pc \in {"entry", "panicked"} /\ issued = <<>> /\ dev_stage = 0
    /\ host_pc = "panicked" => C1_PreconditionsFail /\ issued = <<>>
    /\ Len(issued) <= Len(Chain)
    /\ \A k \in 1..Len(issued) : issued[k] = Chain[k]
    /\ host_pc = "returned" => issued = Chain

\* A call with an unsupported SH coefficient count, and nothing else wrong,
\* has been rejected.
C1_Witness ==
    /\ host_pc = "panicked"
    /\ img_size[1] > 0 /\ img_size[2] > 0
    /\ shapes = GoodShape(5)

\* C2: with the intersection count within capacity, once the tile offsets
\* are computed the compact ids of every tile's range are strictly ascending
\* and the depths of their splats never decrease.
C2_TileRangesDepthOrdered ==
    TileOffsetsReady /\ WithinCapacity =>
        \A t \in Tiles : \A k, l \in TileRange(t) :
            k < l =>
                /\ compact_gid_from_isect[k] < compact_gid_from_isect[l]
                /\ SplatOf(compact_gid_from_isect[k]).depth
                       <= SplatOf(compact_gid_from_isect[l]).depth

\* A tile holds two splats that came in back-to-front order.
C2_Witness ==
    /\ TileOffsetsReady /\ WithinCapacity
    /\ \E t \in Tiles : Cardinality(TileRange(t)) >= 2
    /\ splats[0].depth > splats[1].depth

\* C3 as stated: after the depth sort the depths of compact ids below
\* num_visible strictly increase.
C3_StrictlyAscending ==
    DepthSorted =>
        \A i, j \in DOMAIN global_from_compact_gid :
            i < j /\ j < uniforms.num_visible =>
                SplatOf(i).depth < SplatOf(j).depth

\* C3 amended: after the depth sort the depths of compact ids below
\* num_visible never decrease.
C3_Ascending ==
    DepthSorted =>
        \A i, j \in DOMAIN global_from_compact_gid :
            i < j /\ j < uniforms.num_visible =>
                SplatOf(i).depth <= SplatOf(j).depth

\* Two visible splats that came in back-to-front order have been sorted.
C3_Witness ==
    /\ DepthSorted
    /\ uniforms.num_visible >= 2
    /\ splats[0].depth > splats[1].depth

\* C4 as stated: after the depth sort global_from_compact_gid is injective
\* over [0, total_splats).
C4_InjectiveOverAll ==
    DepthSorted =>
        \A i, j \in 0..(num_points - 1) :
            i # j => global_from_compact_gid[i] # global_from_compact_gid[j]

\* C4 amended: after the depth sort global_from_compact_gid is injective
\* over [0, num_visible).
C4_InjectiveOverVisible ==
    DepthSorted =>
        \A i, j \in DOMAIN global_from_compact_gid :
            i < j /\ j < uniforms.num_visible =>
                global_from_compact_gid[i] # global_from_compact_gid[j]

\* Two visible splats of equal depth have been sorted.
C4_Witness ==
    /\ DepthSorted
    /\ uniforms.num_visible >= 2
    /\ SplatOf(0).depth = SplatOf(1).depth

\* C5: num_visible is never negative, never above the number of splats, and
\* never above the number of ProjectSplats invocations that have finished.
C5_VisibleCountBounded ==
    /\ 0 <= uniforms.num_visible
    /\ uniforms.num_visible <= num_points
    /\ uniforms.num_visible <= Cardinality(ps_done)

\* Every splat was visible: the count has reached the number of splats.
C5_Witness ==
    /\ PreconditionsOk
    /\ Projected
    /\ uniforms.num_visible = num_points

\* C6: once ProjectSplats has retired, however its invocations interleaved,
\* num_visible is the number of splats with positive depth, non-zero opacity
\* and a footprint that is not degenerate.
C6_FinalVisibleCount ==
    Projected =>
        uniforms.num_visible =
            Cardinality({g \in 0..(num_points - 1) :
                splats[g].depth > 0 /\ splats[g].opac > 0 /\ splats[g].radius > 0})

\* Some splats were counted and some culled.
C6_Witness ==
    /\ Projected
    /\ uniforms.num_visible >= 1
    /\ uniforms.num_visible < num_points

\* C7: with the intersection count within capacity, the per-tile counts the
\* Intersection Mapper has written sum to num_intersections, and so does the
\* last entry of tile_offsets.
C7_TileCountsSum ==
    /\ Mapped /\ ~TileOffsetsReady /\ WithinCapacity =>
           SumTo(tile_counts, num_tiles) = uniforms.num_intersections
    /\ TileOffsetsReady /\ WithinCapacity =>
           tile_offsets[num_tiles] = uniforms.num_intersections

\* The tile offsets of a call with intersections in both tiles.
C7_Witness ==
    /\ TileOffsetsReady /\ WithinCapacity
    /\ num_tiles = 2
    /\ tile_offsets[1] >= 1
    /\ tile_offsets[2] > tile_offsets[1]

\* The compact ids whose splat overlaps tile t.
C8_Overlapping(t) ==
    {c \in 0..(uniforms.num_visible - 1) : t \in SplatOf(c).tiles}

\* C8: with the intersection count within capacity, tile_offsets starts at
\* 0 and never decreases, and the range of every tile holds, once each, the
\* compact ids of exactly the splats that overlap the tile.
C8_TileRangesExact ==
    TileOffsetsReady /\ WithinCapacity =>
        /\ tile_offsets[0] = 0
        /\ \A t \in Tiles : tile_offsets[t] <= tile_offsets[t + 1]
        /\ \A t \in Tiles :
               /\ {compact_gid_from_isect[k] : k \in TileRange(t)} = C8_Overlapping(t)
               /\ Cardinality(TileRange(t)) = Cardinality(C8_Overlapping(t))

\* Two tiles with different sets of splats.
C8_Witness ==
    /\ TileOffsetsReady /\ WithinCapacity
    /\ num_tiles = 2
    /\ C8_Overlapping(0) # {}
    /\ C8_Overlapping(1) # {}
    /\ C8_Overlapping(0) # C8_Overlapping(1)

\* C9 as stated: a second call on the same splats in another order
\* composites the same sequence of splats in every tile.
C9_PermutationInvariant ==
    call = 2 /\ Finished => out_tiles = prev.out_tiles

\* No two visible splats have the same depth.
C9_DistinctDepths ==
    \A g, h \in DOMAIN splats :
        g # h /\ Visible(splats[g]) /\ Visible(splats[h]) =>
            splats[g].depth # splats[h].depth

\* C9 amended: when no two visible splats have the same depth and the
\* intersection count is within capacity, a second call on the same splats
\* in another order composites the same sequence of splats in every tile.
C9_PermutationInvariantDistinctDepths ==
    call = 2 /\ Finished /\ C9_DistinctDepths /\ WithinCapacity =>
        out_tiles = prev.out_tiles

\* The second call got the arrays in another order and a tile composites
\* two splats.
C9_Witness ==
    /\ call = 2 /\ Finished /\ C9_DistinctDepths /\ WithinCapacity
    /\ splats # prev.splats
    /\ \E t \in Tiles : Len(out_tiles[t]) >= 2

\* C10's splats: zero opacity or a degenerate footprint.
C10_Culled(g) == splats[g].opac = 0 \/ splats[g].radius = 0

\* C10: a splat with zero opacity or a degenerate footprint is not counted
\* in num_visible, has no compact id below num_visible after the depth sort,
\* is in no tile's range, and is not among the splats a tile composites.
C10_CulledContributesNothing ==
    /\ uniforms.num_visible <=
           Cardinality({g \in ps_done : ~C10_Culled(g)})
    /\ DepthSorted =>
           \A c \in DOMAIN global_from_compact_gid :
               c < uniforms.num_visible => ~C10_Culled(global_from_compact_gid[c])
    /\ TileOffsetsReady =>
           \A t \in Tiles : \A k \in TileRange(t) :
               ~C10_Culled(global_from_compact_gid[compact_gid_from_isect[k]])
    /\ Rasterized =>
           \A t \in Tiles : \A i \in DOMAIN out_tiles[t] :
               out_tiles[t][i].opac > 0 /\ out_tiles[t][i].radius > 0

\* A call with a culled splat first and a visible one after it has been
\* rasterized.
C10_Witness ==
    /\ Rasterized
    /\ C10_Culled(0)
    /\ uniforms.num_visible >= 1
    /\ \E t \in Tiles : Len(out_tiles[t]) >= 1

\* C11: a call of sh_degree_from_coeffs panics exactly on the counts other
\* than 1, 4, 9, 16, 25; applied to the result of sh_coeffs_for_degree on a
\* degree 0..4 it returns that degree; and sh_coeffs_for_degree applied to
\* the degree it returned gives back the count it accepted.
C11_ShDegreeInverse ==
    \A i \in 1..Len(pure.calls) :
        LET this == pure.calls[i] IN
        /\ this.fn = "sh_degree_from_coeffs" =>
               /\ this.ret = Panic <=> this.arg \notin {1, 4, 9, 16, 25}
               /\ this.ret # Panic => this.ret \in 0..4
               /\ i > 1 /\ pure.calls[i - 1].fn = "sh_coeffs_for_degree"
                        /\ pure.calls[i - 1].arg \in 0..4 =>
                      /\ this.arg = pure.calls[i - 1].ret
                      /\ this.ret = pure.calls[i - 1].arg
        /\ this.fn = "sh_coeffs_for_degree" /\ i > 1
                /\ pure.calls[i - 1].fn = "sh_degree_from_coeffs" =>
               /\ this.arg = pure.calls[i - 1].ret
               /\ this.ret = pure.calls[i - 1].arg

\* The degree 4 was mapped to its 25 coefficients and inferred back.
C11_Witness ==
    /\ pure.x = <<4>>
    /\ Len(pure.calls) = 2
    /\ pure.calls[1].fn = "sh_coeffs_for_degree"
    /\ pure.calls[2].fn = "sh_degree_from_coeffs"
    /\ pure.calls[2].ret = 4

RECURSIVE C12_TransmittanceAfter(_, _)
\* The transmittance of a pixel of tile t after the first k intersections
\* of the tile's range.
C12_TransmittanceAfter(t, k) ==
    IF k = 0 THEN T_INIT
    ELSE LET c == compact_gid_from_isect[tile_offsets[t] + k - 1]
             before == C12_TransmittanceAfter(t, k - 1)
         IN  (before * (OPAQUE - projected_splats[c].opac)) \div OPAQUE

\* Exactly one splat is visible, it is opaque and covers tile t.
C12_SingleOpaque(t) ==
    \E g \in DOMAIN splats :
        /\ Visible(splats[g]) /\ splats[g].opac = OPAQUE /\ t \in splats[g].tiles
        /\ \A h \in DOMAIN splats : h # g => ~Visible(splats[h])

C13_OutputShapes ==
    host_pc = "returned" =>
        LET width == img_size[1]
            height == img_size[2]
        IN  /\ out_img_shape = <<height, width, IF raster_u32 THEN 1 ELSE 4>>
            /\ final_index_shape = <<height, width>>

\* A packed image wider than high has been returned.
C13_Witness ==
    /\ host_pc = "returned"
    /\ raster_u32
    /\ img_size[1] > img_size[2]

\* The (tile, splat) overlaps of the call: a visible splat and a tile of the
\* grid its footprint touches.
C14_Overlaps ==
    {<<g, t>> \in (DOMAIN splats) \X Tiles :
        Visible(splats[g]) /\ t \in splats[g].tiles}

\* The capacity of the scratch arrays.
C14_Capacity ==
    IF num_points * num_tiles < INTERSECTS_UPPER_BOUND
    THEN num_points * num_tiles ELSE INTERSECTS_UPPER_BOUND

\* The candidates ProjectVisible has stored.
C14_Stored == {i \in DOMAIN isect_info : isect_info[i] # UninitPair}

\* C14: the scratch arrays keep the capacity they were allocated with;
\* ProjectVisible stores a candidate for every overlap up to the capacity
\* and none past it, so that one was dropped exactly if the final
\* num_intersections is above the capacity; the final num_intersections is
\* the number of overlaps whether or not it fits; and a call with more
\* overlaps than capacity is never stuck before it has finished.
C14_OverflowDropsSilently ==
    LET overlaps == Cardinality(C14_Overlaps)
        stored == Cardinality(C14_Stored)
    IN  /\ dev_stage \in 3..4 =>
               /\ DOMAIN isect_info = 0..(C14_Capacity - 1)
               /\ stored = Min(overlaps, C14_Capacity)
               /\ stored < overlaps
                      <=> uniforms.num_intersections > C14_Capacity
        /\ dev_stage = 5 =>
               /\ DOMAIN tile_id_from_isect = 0..(C14_Capacity - 1)
               /\ DOMAIN tiled_gid = 0..(C14_Capacity - 1)
        /\ dev_stage >= 3 => uniforms.num_intersections = overlaps
        /\ dev_stage >= 6 =>
               DOMAIN compact_gid_from_isect = 0..(C14_Capacity - 1)
        /\ host_pc = "issuing" /\ overlaps > C14_Capacity => ENABLED Next
        /\ host_pc = "returned" /\ dev_stage < Len(Chain)
                /\ overlaps > C14_Capacity =>
               ENABLED Next

\* A call with more overlaps than capacity has finished.
C14_Witness ==
    /\ Finished
    /\ Cardinality(C14_Overlaps) > C14_Capacity
    /\ uniforms.num_intersections > C14_Capacity

\* The exclusive cumulative sum of the per-splat hit counts: the overlaps
\* of the compact ids below c.
C15_CumHits(c) ==
    Cardinality({<<d, t>> \in (0..(c - 1)) \X Tiles :
        d < uniforms.num_visible /\ t \in SplatOf(d).tiles})

\* The slots of the flat arrays the Intersection Mapper has written.
C15_Written == {i \in DOMAIN tiled_gid : tiled_gid[i] # Uninit}

\* While the Intersection Mapper runs and after it: every finished
\* invocation has a slot of its own, every written slot lies in the block
\* of its compact id and holds a tile that splat overlaps, no two slots hold
\* the same intersection, and once the stage has retired every index below
\* num_intersections is written.
C15_Slots ==
    /\ Cardinality(C15_Written) = Cardinality(map_done)
    /\ \A i \in C15_Written :
           LET c == tiled_gid[i] IN
           /\ c < uniforms.num_visible
           /\ C15_CumHits(c) <= i /\ i < C15_CumHits(c + 1)
           /\ tile_id_from_isect[i] \in SplatOf(c).tiles \cap Tiles
    /\ \A i, j \in C15_Written :
           i # j => <<tile_id_from_isect[i], tiled_gid[i]>>
                        # <<tile_id_from_isect[j], tiled_gid[j]>>
    /\ dev_stage = 5 =>
           \A i \in 0..(uniforms.num_intersections - 1) : i \in C15_Written

\* C15 as stated: the slots are exact under every interleaving, whatever
\* the number of intersections.
C15_SlotsExact == dev_stage \in 4..5 => C15_Slots

\* C15 amended: the slots are exact under every interleaving when the
\* final intersection count is within the capacity.
C15_SlotsExactWithinCapacity ==
    dev_stage \in 4..5 /\ WithinCapacity => C15_Slots

\* The intersections of two splats, three or more in all, have been mapped
\* and fill the slots below num_intersections.
C15_Witness ==
    /\ dev_stage = 5 /\ WithinCapacity
    /\ uniforms.num_intersections >= 3
    /\ C15_Written = 0..(uniforms.num_intersections - 1)
    /\ tiled_gid[0] = 0
    /\ tiled_gid[uniforms.num_intersections - 1] = 1

\* C16: every dispatch enqueued reads only what dispatches enqueued before
\* it fill; the device runs no dispatch that is not enqueued; and whenever
\* the depth sort or ProjectVisible can run, every ProjectSplats invocation
\* has finished and num_visible counts every visible splat, and whenever the
\* Intersection Mapper or the tile sort can run, every ProjectVisible
\* invocation has finished and num_intersections counts every overlap.
C16_ProducersFirst ==
    /\ \A k \in 1..Len(issued) : \A b \in Reads[issued[k]] :
           \A w \in DOMAIN Writes :
               b \in Writes[w] => \E j \in 1..(k - 1) : issued[j] = w
    /\ dev_stage <= Len(issued)
    /\ dev_stage >= 1 =>
           /\ ps_done = 0..(num_points - 1)
           /\ uniforms.num_visible =
                  Cardinality({g \in DOMAIN splats : Visible(splats[g])})
    /\ dev_stage >= 3 =>
           /\ pv_done = 0..(uniforms.num_visible - 1)
           /\ uniforms.num_intersections =
                  Cardinality({<<g, t>> \in (DOMAIN splats) \X Tiles :
                      Visible(splats[g]) /\ t \in splats[g].tiles})

\* The depth sort is enqueued while ProjectSplats is still counting: the
\* host is ahead of the device.
C16_Witness ==
    /\ Len(issued) >= 2
    /\ dev_stage = 0
    /\ uniforms.num_visible >= 1
    /\ ps_done # 0..(num_points - 1)

\* The contents of an allocated buffer change in a step.
C17_Changed(before, after) == before # NoBuf /\ after # NoBuf /\ after # before

\* The dispatch the device is running fills buffer b.
C17_RunningWrites(b) ==
    /\ dev_stage < Len(issued)
    /\ b \in Writes[issued[dev_stage + 1]]

\* C17: no buffer or counter is filled by two dispatches; in every step
\* the contents of a buffer change only while the one dispatch that fills it
\* is running; num_visible changes only by an increment of ProjectSplats
\* and num_intersections only by an increment of ProjectVisible, each
\* leaving the rest of the uniform record alone; nothing else changes the
\* record once it is created; and num_visible is constant once ProjectSplats
\* has retired, num_intersections once ProjectVisible has.
C17_SingleWriter ==
    [][ /\ \A v, w \in DOMAIN Writes : v # w => Writes[v] \cap Writes[w] = {}
        /\ C17_Changed(global_from_presort_gid, global_from_presort_gid')
               => C17_RunningWrites("global_from_presort_gid")
        /\ C17_Changed(depths, depths') => C17_RunningWrites("depths")
        /\ C17_Changed(global_from_compact_gid, global_from_compact_gid')
               => C17_RunningWrites("global_from_compact_gid")
        /\ C17_Changed(projected_splats, projected_splats')
               => C17_RunningWrites("projected_splats")
        /\ C17_Changed(tiles_hit_per_splat, tiles_hit_per_splat')
               => C17_RunningWrites("tiles_hit_per_splat")
        /\ C17_Changed(isect_info, isect_info') => C17_RunningWrites("isect_info")
        /\ C17_Changed(cum_tiles_hit, cum_tiles_hit')
               => C17_RunningWrites("cum_tiles_hit")
        /\ C17_Changed(tile_counts, tile_counts') => C17_RunningWrites("tile_counts")
        /\ C17_Changed(tile_id_from_isect, tile_id_from_isect')
               => C17_RunningWrites("tile_id_from_isect")
        /\ C17_Changed(tiled_gid, tiled_gid') => C17_RunningWrites("tiled_gid")
        /\ C17_Changed(compact_gid_from_isect, compact_gid_from_isect')
               => C17_RunningWrites("compact_gid_from_isect")
        /\ C17_Changed(tile_offsets, tile_offsets')
               => C17_RunningWrites("tile_offsets")
        /\ C17_Changed(out_tiles, out_tiles') => C17_RunningWrites("out_img")
        /\ C17_Changed(final_index, final_index')
               => C17_RunningWrites("final_index")
        /\ uniforms.num_visible' # uniforms.num_visible =>
               /\ C17_RunningWrites("num_visible")
               /\ issued[dev_stage + 1] = "ProjectSplats"
               /\ uniforms' = [uniforms EXCEPT !.num_visible = @ + 1]
        /\ uniforms.num_intersections' # uniforms.num_intersections =>
               /\ C17_RunningWrites("num_intersections")
               /\ issued[dev_stage + 1] = "ProjectVisible"
               /\ uniforms' = [uniforms EXCEPT !.num_intersections = @ + 1]
        /\ uniforms' # uniforms =>
               \/ host_pc = "entry"
               \/ uniforms.num_visible' # uniforms.num_visible
               \/ uniforms.num_intersections' # uniforms.num_intersections
        /\ dev_stage >= 1 => uniforms.num_visible' = uniforms.num_visible
        /\ dev_stage >= 3 =>
               uniforms.num_intersections' = uniforms.num_intersections
      ]_vars

\* Both counters are above zero and every dispatch has retired.
C17_Witness ==
    /\ Finished
    /\ uniforms.num_visible >= 2
    /\ uniforms.num_intersections >= 3

\* The smallest b with n < 2^b.
C18_BitsToCover(n) ==
    CHOOSE b \in 0..30 :
        /\ n < Pow2(b)
        /\ \A a \in 0..(b - 1) : n >= Pow2(a)

\* C18 as stated: the key width of a tile sort that has been enqueued is
\* the smallest b with num_tiles - 1 < 2^b.
C18_MinimalKeyBits ==
    Len(issued) >= 6 => TileSortBits = C18_BitsToCover(num_tiles - 1)

\* C19: in a call that passed its checks the key width of the tile sort is
\* the number of bits of num_tiles and every tile id of the grid is below
\* 2^width; and with the intersection count within capacity, every
\* intersection the sort has put in a tile's range is one of that tile.
C19_KeyBitsSufficient ==
    /\ host_pc \in {"issuing", "returned"} =>
           /\ TileSortBits >= 1
           /\ Pow2(TileSortBits - 1) <= num_tiles
           /\ num_tiles < Pow2(TileSortBits)
           /\ \A t \in Tiles : t < Pow2(TileSortBits)
    /\ TileOffsetsReady /\ WithinCapacity =>
           \A t \in Tiles : \A k \in TileRange(t) :
               t \in SplatOf(compact_gid_from_isect[k]).tiles

\* On a grid of three tiles the sort has put an intersection in the range
\* of the last tile and one in the range of another.
C19_Witness ==
    /\ TileOffsetsReady /\ WithinCapacity
    /\ num_tiles = 3
    /\ TileRange(2) # {}
    /\ TileRange(0) \cup TileRange(1) # {}

\* The number of tiles that cover n pixels: the smallest k with
\* k * TILE_WIDTH >= n.
C20_TilesAcross(n) ==
    CHOOSE k \in 0..n : k * TILE_WIDTH >= n /\ (k - 1) * TILE_WIDTH < n

\* min(num_splats * tiles, INTERSECTS_UPPER_BOUND), the product taken
\* exactly: at INTERSECTS_UPPER_BOUND splats or more, one tile reaches the
\* bound.
C20_Expected(n, tiles) ==
    IF n = 0 \/ tiles = 0 THEN 0
    ELSE IF n >= INTERSECTS_UPPER_BOUND \/ tiles >= INTERSECTS_UPPER_BOUND
         THEN INTERSECTS_UPPER_BOUND
         ELSE IF n * tiles < INTERSECTS_UPPER_BOUND
              THEN n * tiles ELSE INTERSECTS_UPPER_BOUND

\* C20: every call of max_intersections returns
\* min(num_splats * num_tiles, INTERSECTS_UPPER_BOUND) with num_tiles the
\* tiles across times the tiles down; render_forward allocates the scratch
\* arrays with that capacity; and in a call with
\* total_splats * num_tiles <= INTERSECTS_UPPER_BOUND the final
\* num_intersections is within the capacity, every overlap is stored as a
\* candidate, and every tile's range holds every splat that overlaps it.
C20_CapacityEstimate ==
    /\ \A i \in 1..Len(pure.calls) :
           pure.calls[i].fn = "max_intersections" =>
               pure.calls[i].ret =
                   C20_Expected(pure.x[3],
                                C20_TilesAcross(pure.x[1]) * C20_TilesAcross(pure.x[2]))
    /\ dev_stage \in 3..4 =>
           Len0(isect_info) =
               C20_Expected(num_points,
                            C20_TilesAcross(img_size[1]) * C20_TilesAcross(img_size[2]))
    /\ host_pc \in {"issuing", "returned"}
            /\ uniforms.total_splats * num_tiles <= INTERSECTS_UPPER_BOUND =>
           /\ uniforms.num_intersections <= uniforms.total_splats * num_tiles
           /\ dev_stage \in 3..4 =>
                  /\ uniforms.num_intersections <= Len0(isect_info)
                  /\ \A c \in 0..(uniforms.num_visible - 1) :
                         \A t \in SplatOf(c).tiles \cap Tiles :
                             \E i \in DOMAIN isect_info : isect_info[i] = <<t, c>>
           /\ TileOffsetsReady =>
                  /\ tile_offsets[num_tiles] = uniforms.num_intersections
                  /\ \A c \in 0..(uniforms.num_visible - 1) :
                         \A t \in SplatOf(c).tiles \cap Tiles :
                             \E k \in TileRange(t) : compact_gid_from_isect[k] = c

\* A call whose estimate is below the bound has finished with as many
\* intersections as the capacity.
C20_Witness ==
    /\ Finished
    /\ uniforms.total_splats * num_tiles <= INTERSECTS_UPPER_BOUND
    /\ uniforms.num_intersections = uniforms.total_splats * num_tiles
    /\ uniforms.num_intersections >= 2

====
